---- MODULE Spec2Model ----
(***************************************************************************)
(* HanORM (src/unnamed/part_002, class HanORM): the transaction            *)
(* coordination layer over a pooled MySQL driver.                          *)
(*                                                                         *)
(* The driver (mysql2/promise) is an external collaborator.  It is         *)
(* modelled by its capability interface: a pool hands out a connection     *)
(* that is not checked out, release() returns it, and each connection is   *)
(* a server session with at most one open transaction whose statements     *)
(* stay pending until COMMIT.  A driver call either succeeds, or fails     *)
(* with a statement error ("err": no effect, session intact), or fails     *)
(* because the session is lost ("lost": the server aborts the open         *)
(* transaction, the pool drops the connection, every later call on it      *)
(* throws).  BEGIN and ROLLBACK only fail by losing the session.           *)
(*                                                                         *)
(* Every `await` of the code is a step boundary; the synchronous code      *)
(* after an await (finally blocks, the null check of the next call) runs   *)
(* in the same step as the driver call it follows.                         *)
(***************************************************************************)
EXTENDS Integers, Sequences, FiniteSets, TLC

\* Bounds of the model.
NumConns == 2
MaxLen   == 2
MaxCalls == 3
MaxConcurrentCalls == 2
MaxFields == 2
MaxPage == 2

\* `private transactionConnection: any = null`
NULL == 0

Conns   == 1..NumConns
Callers == {"a", "b"}

SingleOps == {"create", "update", "delete", "findById", "find", "count", "join"}
WriteOps  == {"create", "update", "delete"}
BulkOps   == {"createMany", "updateMany", "deleteMany"}

VARIABLES
    db,                     \* committed changes: set of <<call id, row>>
    alive,                  \* alive[c]: the session of connection c exists
    held,                   \* held[c]: c is checked out of the pool
    inTx,                   \* inTx[c]: c has an open transaction
    pending,                \* pending[c]: uncommitted changes of c's transaction
    transactionConnection,  \* HanORM.transactionConnection (NULL or a connection)
    pc,                     \* pc[p]: where caller p's current call is suspended
    frame,                  \* frame[p]: the locals of caller p's current call
    calls,                  \* number of calls made so far (call ids)
    flows,                  \* the callers that use the instance
    rowFailed,              \* ids of finished createMany/updateMany calls in which a row failed
    sync,                   \* HanORM.sync
    stmt                    \* the last call seen as statements: its arguments,
                            \* the statements it passed to executeQuery, its result

vars == <<db, alive, held, inTx, pending, transactionConnection, pc, frame,
          calls, flows, rowFailed, sync, stmt>>

\* What the transaction steps leave alone.
others == <<flows, sync, stmt>>

IdleStmt == [op |-> "none", args |-> <<>>, sent |-> <<>>, res |-> "none"]

driver == <<db, alive, held, inTx, pending>>

IdleFrame ==
    [kind |-> "none", id |-> 0, n |-> 0, i |-> 0, txc |-> NULL, conn |-> NULL,
     err |-> "none", res |-> "none", failedRow |-> 0, atCall |-> NULL,
     trace |-> <<>>]

NewFrame(k, len) ==
    [IdleFrame EXCEPT !.kind = k, !.id = calls + 1, !.n = len,
                      !.atCall = transactionConnection]

Log(f, name, c, out) == [f EXCEPT !.trace = Append(@, <<name, c, out>>)]

----------------------------------------------------------------------------
\* The driver.

\* The outcomes a call on connection c can have, among `possible`.
Outcomes(c, possible) == IF alive[c] THEN possible ELSE {"lost"}

\* What losing the session does to the per-connection state.
LostAlive(c)   == [alive EXCEPT ![c] = FALSE]
LostInTx(c)    == [inTx EXCEPT ![c] = FALSE]
LostPending(c) == [pending EXCEPT ![c] = {}]

\* pool.getConnection(): a live connection that is not checked out.
Free(c) == alive[c] /\ ~held[c]

\* connection.release(): back to the pool; `al` is the sessions' state at the
\* time of the call (a lost connection is not taken back).
Released(h, al, c) == IF al[c] THEN [h EXCEPT ![c] = FALSE] ELSE h

\* connection.beginTransaction(): START TRANSACTION commits an open transaction.
BeginDb(c, out)      == IF out = "ok" THEN db \cup pending[c] ELSE db
BeginInTx(c, out)    == IF out = "ok" THEN [inTx EXCEPT ![c] = TRUE] ELSE LostInTx(c)
BeginPending(c, out) == LostPending(c)

\* connection.execute(sql, params): `change` is the set of changes of the statement.
ExecuteDb(c, change, out) ==
    IF out = "ok" /\ ~inTx[c] THEN db \cup change ELSE db
ExecuteInTx(c, out) == IF out = "lost" THEN LostInTx(c) ELSE inTx
ExecutePending(c, change, out) ==
    CASE out = "ok" /\ inTx[c] -> [pending EXCEPT ![c] = @ \cup change]
      [] out = "lost"          -> LostPending(c)
      [] OTHER                 -> pending

\* connection.commit(): a failed COMMIT aborts the transaction.
CommitDb(c, out)      == IF out = "ok" THEN db \cup pending[c] ELSE db
CommitInTx(c, out)    == LostInTx(c)
CommitPending(c, out) == LostPending(c)

\* connection.rollback()
RollbackDb(c, out)      == db
RollbackInTx(c, out)    == LostInTx(c)
RollbackPending(c, out) == LostPending(c)

AliveAfter(c, out) == IF out = "lost" THEN LostAlive(c) ELSE alive

----------------------------------------------------------------------------
\* Control flow between the awaits.  Each operator gives the next suspension
\* point of a call, [pc, f], from its frame f and the instance's handle h
\* as the synchronous code reads it.

Done(f, r) == [pc |-> "done", f |-> [f EXCEPT !.res = r]]

\* logMethod / logQuery: log and rethrow the error they caught.
logMethod(error) == error
logQuery(error)  == error

\* What the caller of f's call receives when `error` leaves it: the bulk and
\* single-row operations are wrapped by @logMethod, the transaction methods
\* are not.
Thrown(f, error) ==
    IF f.kind \in BulkOps \cup SingleOps THEN logMethod(error) ELSE error

\* Mutant of executeQuery: a call without a connection runs on the instance's
\* transaction connection when there is one.
executeQueryOnHandle(f, tc) ==
    IF tc # NULL THEN [pc |-> "eq_exec", f |-> [f EXCEPT !.conn = tc]]
    ELSE IF transactionConnection # NULL
    THEN [pc |-> "eq_exec", f |-> [f EXCEPT !.conn = transactionConnection]]
    ELSE [pc |-> "eq_get", f |-> f]

\* executeQuery(query, params, transactionConnection):
\* `transactionConnection || await this.pool.getConnection()`
executeQuery(f, tc) ==
    IF tc # NULL THEN [pc |-> "eq_exec", f |-> [f EXCEPT !.conn = tc]]
                 ELSE [pc |-> "eq_get", f |-> f]

\* After commitTransaction() has returned normally.
AfterCommit(f) ==
    IF f.kind = "deleteMany" /\ f.i < f.n
    THEN executeQuery(f, f.txc)
    ELSE Done(f, "ok")

\* Mutant of commitTransaction: a commit without a transaction is rejected.
commitTransactionStrict(f, h) ==
    IF h = NULL THEN Done(f, "ConflictError")
                ELSE [pc |-> "ct_commit", f |-> [f EXCEPT !.conn = h]]

\* commitTransaction(): `if (!this.transactionConnection) return;` then
\* `await this.transactionConnection.commit()`.
commitTransaction(f, h) ==
    IF h = NULL THEN AfterCommit(f)
                ELSE [pc |-> "ct_commit", f |-> [f EXCEPT !.conn = h]]

\* After rollbackTransaction() has returned normally: a bulk operation
\* rethrows the error it caught, a direct call returns.
AfterRollback(f) ==
    IF f.kind \in BulkOps THEN Done(f, Thrown(f, f.err)) ELSE Done(f, "ok")

\* rollbackTransaction(): `if (!this.transactionConnection) return;` then
\* `await this.transactionConnection.rollback()`.
rollbackTransaction(f, h) ==
    IF h = NULL THEN AfterRollback(f)
                ELSE [pc |-> "rt_rollback", f |-> [f EXCEPT !.conn = h]]

\* Mutant of Catch: the catch block rethrows without rolling back.
CatchWithoutRollback(f, h, error) == Done(f, Thrown(f, error))

\* `catch (error) { await this.rollbackTransaction(); throw error; }`
Catch(f, h, error) == rollbackTransaction([f EXCEPT !.err = error], h)

\* The loop of a bulk operation after row f.i has been executed.
NextRow(f, h) ==
    IF f.kind = "deleteMany" THEN commitTransaction(f, h)
    ELSE IF f.i < f.n THEN executeQuery(f, f.txc)
    ELSE commitTransaction(f, h)

\* The body of a bulk operation once startTransaction() has returned.
BulkBody(f, h) ==
    IF f.n > 0 THEN executeQuery(f, f.txc)
    ELSE IF f.kind = "deleteMany" THEN Done(f, "ok")
    ELSE commitTransaction(f, h)

----------------------------------------------------------------------------
Init ==
    /\ db = {}
    /\ alive = [c \in Conns |-> TRUE]
    /\ held = [c \in Conns |-> FALSE]
    /\ inTx = [c \in Conns |-> FALSE]
    /\ pending = [c \in Conns |-> {}]
    /\ transactionConnection = NULL
    /\ pc = [p \in Callers |-> "idle"]
    /\ frame = [p \in Callers |-> IdleFrame]
    /\ calls = 0
    /\ rowFailed = {}
    /\ stmt = IdleStmt

\* One logical flow of calls (spec section 5).
InitFlow == Init /\ flows = {"a"} /\ sync = FALSE

\* Two logical flows on the same instance.
InitConcurrent == Init /\ flows = Callers /\ sync = FALSE

Goto(p, nxt) ==
    /\ pc' = [pc EXCEPT ![p] = nxt.pc]
    /\ frame' = [frame EXCEPT ![p] = nxt.f]

\* The number of calls a run makes: more in a single flow than in two flows,
\* whose steps interleave.
CallLimit == IF flows = Callers THEN MaxConcurrentCalls ELSE MaxCalls

\* The flows are interchangeable: the one that makes the first call is "a".
CanCall(p) ==
    /\ p \in flows /\ pc[p] = "idle" /\ calls < CallLimit
    /\ p = "a" \/ calls > 0

\* connect(): `await this.pool.getConnection()`
Connect(p) ==
    /\ CanCall(p)
    /\ calls' = calls + 1
    /\ Goto(p, [pc |-> "connect_get", f |-> NewFrame("connect", 0)])
    /\ UNCHANGED <<driver, transactionConnection, others, rowFailed>>

\* connect(): `connection.release()`
ConnectAcquired(p) ==
    /\ pc[p] = "connect_get"
    /\ \E c \in Conns :
         /\ Free(c)
         /\ Goto(p, Done(Log(Log(frame[p], "get", c, "ok"), "release", c, "ok"), "ok"))
    /\ UNCHANGED <<driver, transactionConnection, calls, others, rowFailed>>

\* startTransaction(), called directly.
StartTransaction(p) ==
    /\ CanCall(p)
    /\ calls' = calls + 1
    /\ Goto(p, [pc |-> "st_get", f |-> NewFrame("startTransaction", 0)])
    /\ UNCHANGED <<driver, transactionConnection, others, rowFailed>>

\* commitTransaction(), called directly.
CommitTransaction(p) ==
    /\ CanCall(p)
    /\ calls' = calls + 1
    /\ Goto(p, commitTransaction(NewFrame("commitTransaction", 0), transactionConnection))
    /\ UNCHANGED <<driver, transactionConnection, others, rowFailed>>

\* rollbackTransaction(), called directly.
RollbackTransaction(p) ==
    /\ CanCall(p)
    /\ calls' = calls + 1
    /\ Goto(p, rollbackTransaction(NewFrame("rollbackTransaction", 0), transactionConnection))
    /\ UNCHANGED <<driver, transactionConnection, others, rowFailed>>

\* create, update, delete, findById, find, count, join: executeQuery(query, params).
SingleRow(p) ==
    /\ CanCall(p)
    /\ calls' = calls + 1
    /\ \E k \in SingleOps : Goto(p, executeQuery(NewFrame(k, 1), NULL))
    /\ UNCHANGED <<driver, transactionConnection, others, rowFailed>>

\* createMany, updateMany, deleteMany: `await this.startTransaction()`.
Bulk(p) ==
    /\ CanCall(p)
    /\ calls' = calls + 1
    /\ \E k \in BulkOps, len \in 0..MaxLen :
           Goto(p, [pc |-> "st_get", f |-> NewFrame(k, len)])
    /\ UNCHANGED <<driver, transactionConnection, others, rowFailed>>

\* startTransaction(): `this.transactionConnection = await this.pool.getConnection()`
\* and the call of beginTransaction() on it.
StartAcquired(p) ==
    /\ pc[p] = "st_get"
    /\ \E c \in Conns :
         /\ Free(c)
         /\ held' = [held EXCEPT ![c] = TRUE]
         /\ transactionConnection' = c
         /\ Goto(p, [pc |-> "st_begin",
                     f |-> Log([frame[p] EXCEPT !.conn = c], "get", c, "ok")])
    /\ UNCHANGED <<db, alive, inTx, pending, calls, others, rowFailed>>

\* startTransaction(): beginTransaction() settles, then
\* `return this.transactionConnection`; a bulk operation keeps the returned
\* value in its local transactionConnection and enters its try block.
StartBegun(p) ==
    /\ pc[p] = "st_begin"
    /\ LET f == frame[p]
           c == f.conn
       IN \E out \in Outcomes(c, {"ok", "lost"}) :
            /\ db' = BeginDb(c, out)
            /\ inTx' = BeginInTx(c, out)
            /\ pending' = BeginPending(c, out)
            /\ alive' = AliveAfter(c, out)
            /\ LET g == Log(f, "begin", c, out)
               IN Goto(p, IF out # "ok"
                          THEN Done(g, Thrown(f, "E_begin"))
                          ELSE IF f.kind = "startTransaction" THEN Done(g, "ok")
                          ELSE BulkBody([g EXCEPT !.txc = transactionConnection],
                                        transactionConnection))
    /\ UNCHANGED <<held, transactionConnection, calls, others, rowFailed>>

\* executeQuery(): `await this.pool.getConnection()` when no transaction
\* connection was passed, and the call of execute() on it.
QueryAcquired(p) ==
    /\ pc[p] = "eq_get"
    /\ \E c \in Conns :
         /\ Free(c)
         /\ held' = [held EXCEPT ![c] = TRUE]
         /\ Goto(p, [pc |-> "eq_exec",
                     f |-> Log([frame[p] EXCEPT !.conn = c], "get", c, "ok")])
    /\ UNCHANGED <<db, alive, inTx, pending, transactionConnection, calls, others,
                   rowFailed>>

\* The changes the statement of the current row makes.
Change(f) == IF f.kind \in WriteOps \cup BulkOps THEN {<<f.id, f.i + 1>>} ELSE {}

\* executeQuery(): execute() settles, `finally { connection.release(); }`, and
\* the caller goes on: a single-row operation returns or throws, a bulk
\* operation takes the next row, commits, or enters its catch block.
QueryExecuted(p) ==
    /\ pc[p] = "eq_exec"
    /\ LET f == frame[p]
           c == f.conn
       IN \E out \in Outcomes(c, {"ok", "err", "lost"}) :
            /\ db' = ExecuteDb(c, Change(f), out)
            /\ inTx' = ExecuteInTx(c, out)
            /\ pending' = ExecutePending(c, Change(f), out)
            /\ alive' = AliveAfter(c, out)
            /\ held' = Released(held, alive', c)
            /\ LET g == Log(Log(f, "execute", c, out), "release", c, "ok")
               IN Goto(p,
                    IF f.kind \in SingleOps
                    THEN Done(g, IF out = "ok" THEN "ok"
                                 ELSE Thrown(f, logQuery("E_execute")))
                    ELSE IF out = "ok"
                    THEN NextRow([g EXCEPT !.i = f.i + 1], transactionConnection)
                    ELSE Catch([g EXCEPT !.failedRow = f.i + 1],
                               transactionConnection, logQuery("E_execute")))
    /\ UNCHANGED <<transactionConnection, calls, others, rowFailed>>

\* commitTransaction(): commit() settles, then
\* `this.transactionConnection.release(); this.transactionConnection = null;`
CommitDone(p) ==
    /\ pc[p] = "ct_commit"
    /\ LET f == frame[p]
           c == f.conn
           h == transactionConnection
       IN \E out \in Outcomes(c, {"ok", "err", "lost"}) :
            /\ db' = CommitDb(c, out)
            /\ inTx' = CommitInTx(c, out)
            /\ pending' = CommitPending(c, out)
            /\ alive' = AliveAfter(c, out)
            /\ LET g == Log(f, "commit", c, out)
               IN IF out # "ok"
                  THEN /\ Goto(p, IF f.kind \in BulkOps THEN Catch(g, h, "E_commit")
                                  ELSE Done(g, Thrown(f, "E_commit")))
                       /\ UNCHANGED <<held, transactionConnection>>
                  ELSE IF h = NULL
                  THEN /\ Goto(p, IF f.kind \in BulkOps THEN Catch(g, h, "TypeError")
                                  ELSE Done(g, Thrown(f, "TypeError")))
                       /\ UNCHANGED <<held, transactionConnection>>
                  ELSE /\ held' = Released(held, alive', h)
                       /\ transactionConnection' = NULL
                       /\ Goto(p, AfterCommit(Log(g, "release", h, "ok")))
    /\ UNCHANGED <<calls, others, rowFailed>>

\* rollbackTransaction(): rollback() settles, then
\* `this.transactionConnection.release(); this.transactionConnection = null;`
RollbackDone(p) ==
    /\ pc[p] = "rt_rollback"
    /\ LET f == frame[p]
           c == f.conn
           h == transactionConnection
       IN \E out \in Outcomes(c, {"ok", "lost"}) :
            /\ db' = RollbackDb(c, out)
            /\ inTx' = RollbackInTx(c, out)
            /\ pending' = RollbackPending(c, out)
            /\ alive' = AliveAfter(c, out)
            /\ LET g == Log(f, "rollback", c, out)
               IN IF out # "ok"
                  THEN /\ Goto(p, Done(g, Thrown(f, "E_rollback")))
                       /\ UNCHANGED <<held, transactionConnection>>
                  ELSE IF h = NULL
                  THEN /\ Goto(p, Done(g, Thrown(f, "TypeError")))
                       /\ UNCHANGED <<held, transactionConnection>>
                  ELSE /\ held' = Released(held, alive', h)
                       /\ transactionConnection' = NULL
                       /\ Goto(p, AfterRollback(Log(g, "release", h, "ok")))
    /\ UNCHANGED <<calls, others, rowFailed>>

\* The call has settled: the caller has its result and may call again.
Return(p) ==
    /\ pc[p] = "done"
    /\ rowFailed' = IF frame[p].kind \in {"createMany", "updateMany"}
                       /\ frame[p].failedRow > 0
                    THEN rowFailed \cup {frame[p].id} ELSE rowFailed
    /\ Goto(p, [pc |-> "idle", f |-> IdleFrame])
    /\ UNCHANGED <<driver, transactionConnection, calls, others>>

Next ==
    \E p \in Callers :
        \/ Connect(p)
        \/ ConnectAcquired(p)
        \/ StartTransaction(p)
        \/ CommitTransaction(p)
        \/ RollbackTransaction(p)
        \/ SingleRow(p)
        \/ Bulk(p)
        \/ StartAcquired(p)
        \/ StartBegun(p)
        \/ QueryAcquired(p)
        \/ QueryExecuted(p)
        \/ CommitDone(p)
        \/ RollbackDone(p)
        \/ Return(p)

\* The scheduling model of spec section 5: a single logical flow.
Spec == InitFlow /\ [][Next]_vars

\* Two flows calling the same instance concurrently.
SpecConcurrent == InitConcurrent /\ [][Next]_vars

----------------------------------------------------------------------------
\* Reading a call's driver calls back from its frame.

Idx(f) == 1..Len(f.trace)
Name(f, k) == f.trace[k][1]
Conn(f, k) == f.trace[k][2]
Out(f, k)  == f.trace[k][3]
Changes(id) == {t \in db : t[1] = id}
Settled(p) == pc[p] = "done"
BulkRowFailure(f) == f.kind \in {"createMany", "updateMany"} /\ f.failedRow > 0

\* C1: createMany and updateMany are atomic on row failure: when the statement
\* of row k fails, a rollback is issued on the transaction's connection, the
\* call throws, and no change of rows 1..k is in the database, then or later.
C1_BulkRowFailureAtomic ==
    /\ \A id \in rowFailed : Changes(id) = {}
    /\ \A p \in Callers :
         BulkRowFailure(frame[p]) =>
            /\ Changes(frame[p].id) = {}
            /\ Settled(p) =>
                 /\ frame[p].res # "ok"
                 /\ \E k \in Idx(frame[p]) :
                      Name(frame[p], k) = "rollback" /\ Conn(frame[p], k) = frame[p].txc

\* C1 witness: a createMany/updateMany whose first row was executed and whose
\* second row failed has settled, and a later call has settled after it.
C1_Witness ==
    /\ rowFailed # {}
    /\ \E p \in Callers :
         /\ Settled(p) /\ BulkRowFailure(frame[p]) /\ frame[p].failedRow = 2
         /\ \E k \in Idx(frame[p]) :
              Name(frame[p], k) = "rollback" /\ Out(frame[p], k) = "ok"

\* C2: deleteMany is atomic on row failure: when the DELETE of the k-th id,
\* k >= 2, fails, no deletion of the call is committed.
C2_DeleteManyRowFailureAtomic ==
    \A p \in Callers :
        (Settled(p) /\ frame[p].kind = "deleteMany" /\ frame[p].failedRow >= 2)
            => Changes(frame[p].id) = {}

\* C3: a deleteMany over a non-empty list whose deletions all succeed issues
\* exactly one commit, after the DELETE of the last id.
C3_DeleteManyOneCommitAtEnd ==
    \A p \in Callers :
        LET f == frame[p] IN
        (Settled(p) /\ f.kind = "deleteMany" /\ f.n >= 1 /\ f.res = "ok")
            => /\ Cardinality({k \in Idx(f) : Name(f, k) = "commit"}) = 1
               /\ \A k, e \in Idx(f) :
                    (Name(f, k) = "commit" /\ Name(f, e) = "execute") => e < k

\* C4: the connection of a transaction is released exactly once, by the
\* commit or rollback that ends the transaction: after BEGIN, every release
\* of the connection directly follows a commit or rollback on it, and there
\* is at most one.
C4_TransactionConnectionReleasedOnce ==
    \A p \in Callers :
        LET f == frame[p] IN
        \A b \in Idx(f) :
            (Name(f, b) = "begin" /\ Out(f, b) = "ok") =>
                LET rel == {k \in Idx(f) : k > b /\ Name(f, k) = "release"
                                             /\ Conn(f, k) = Conn(f, b)}
                IN /\ Cardinality(rel) <= 1
                   /\ \A k \in rel : /\ Name(f, k - 1) \in {"commit", "rollback"}
                                     /\ Conn(f, k - 1) = Conn(f, b)

\* C5: every connection a call acquired is released when the call returns or
\* throws; only a startTransaction that succeeded keeps its connection, for
\* the commit or rollback that ends the transaction.
C5_AcquiredConnectionsReleased ==
    \A p \in Callers :
        LET f == frame[p] IN
        Settled(p) =>
            \A g \in Idx(f) :
                Name(f, g) = "get" =>
                    \/ \E k \in Idx(f) : k > g /\ Name(f, k) = "release"
                                                /\ Conn(f, k) = Conn(f, g)
                    \/ f.kind = "startTransaction" /\ f.res = "ok"

\* C6: startTransaction called while a transaction is Active fails with a
\* conflict error, acquires no connection, issues no BEGIN and leaves the
\* handle as it was.
C6_StartWhileActiveConflicts ==
    \A p \in Callers :
        LET f == frame[p] IN
        (/\ Settled(p) /\ f.kind = "startTransaction"
         /\ f.atCall # NULL /\ alive[f.atCall] /\ inTx[f.atCall])
            => /\ f.res = "ConflictError"
               /\ f.trace = <<>>
               /\ transactionConnection = f.atCall

\* C7: two bulk operations running concurrently (the first calls of two
\* flows) are not interleaved: at most one connection has an open
\* transaction, and every commit or rollback of a bulk operation is applied
\* to the connection on which that operation issued BEGIN.
C7_ConcurrentBulkNotInterleaved ==
    (\A p \in Callers : frame[p].kind \in BulkOps /\ frame[p].id <= Cardinality(Callers))
        => /\ Cardinality({c \in Conns : inTx[c]}) <= 1
           /\ \A p \in Callers :
                LET f == frame[p] IN
                \A b, k \in Idx(f) :
                    (Name(f, b) = "begin" /\ Name(f, k) \in {"commit", "rollback"})
                        => Conn(f, k) = Conn(f, b)

\* C8: a single-row operation called while a transaction is Active runs in
\* that transaction: its statement executes on the transaction's connection
\* and its change is not visible before commitTransaction.
C8_SingleRowInsideTransaction ==
    \A p \in Callers :
        LET f == frame[p] IN
        (/\ Settled(p) /\ f.kind \in SingleOps /\ f.res = "ok"
         /\ f.atCall # NULL /\ transactionConnection = f.atCall
         /\ alive[f.atCall] /\ inTx[f.atCall])
            => /\ \A k \in Idx(f) : Name(f, k) = "execute" => Conn(f, k) = f.atCall
               /\ Changes(f.id) = {}

C10_OriginalErrorReceived ==
    \A p \in Callers :
        (Settled(p) /\ frame[p].kind \in BulkOps /\ frame[p].failedRow > 0)
            => frame[p].res = "E_execute"

\* C11: in a bulk operation, whenever a row statement or the commit fails, a
\* ROLLBACK is issued on the connection of the operation's transaction before
\* the error reaches the caller.
C11_FailureRollsBack ==
    \A p \in Callers :
        LET f == frame[p] IN
        (Settled(p) /\ f.kind \in BulkOps) =>
            \A b, e \in Idx(f) :
                (/\ Name(f, b) = "begin"
                 /\ Name(f, e) \in {"execute", "commit"} /\ Out(f, e) # "ok")
                    => \E k \in Idx(f) : /\ k > e
                                         /\ Name(f, k) = "rollback"
                                         /\ Conn(f, k) = Conn(f, b)

\* C12: commitTransaction and rollbackTransaction called while the instance
\* is Idle return normally at once, without any call on the pool or on a
\* connection, and leave the instance Idle.
C12_IdleCommitRollbackNoOp ==
    [][\A p \in Callers :
         (/\ pc[p] = "idle" /\ pc'[p] # "idle"
          /\ frame'[p].kind \in {"commitTransaction", "rollbackTransaction"}
          /\ transactionConnection = NULL)
            => /\ pc'[p] = "done"
               /\ frame'[p].res = "ok"
               /\ frame'[p].trace = <<>>
               /\ UNCHANGED <<driver, transactionConnection>>]_vars

\* C12 witness: a commitTransaction called while Idle has settled.
C12_Witness ==
    \E p \in Callers :
        /\ Settled(p) /\ frame[p].kind = "commitTransaction"
        /\ frame[p].atCall = NULL /\ transactionConnection = NULL

\* C20: after a bulk operation has returned or thrown the instance is Idle:
\* the handle is cleared and the transaction the operation began is closed.
C20_BulkReturnsToIdle ==
    \A p \in Callers :
        LET f == frame[p] IN
        (Settled(p) /\ f.kind \in BulkOps) =>
            /\ transactionConnection = NULL
            /\ \A b \in Idx(f) :
                 (Name(f, b) = "begin" /\ Out(f, b) = "ok") => ~inTx[Conn(f, b)]

(***************************************************************************)
(* Statement building.  A query is the sequence of its tokens, in the      *)
(* order the template literal writes them; a statement is a query with     *)
(* the parameter list handed to executeQuery.  The calls below are seen    *)
(* from the statements they send, whatever connection carries them: a      *)
(* call builds its statements from its arguments and the driver answers    *)
(* each one with success or an error.                                      *)
(***************************************************************************)
EntityNames == {"users", "orders"}
FieldNames  == {"username", "email", "age"}
FieldValues == {"john_doe", "x"}
Ids         == 1..MaxLen

\* An optional argument: undefined, or a value.
Absent      == [some |-> FALSE]
Given(v)    == [some |-> TRUE, v |-> v]
Optional(S) == {Absent} \cup {Given(v) : v \in S}

\* JavaScript truthiness of an optional number, string, object.
TruthyNumber(a) == a.some /\ a.v # 0
TruthyString(a) == a.some /\ a.v # ""
TruthyObject(a) == a.some

\* Objects keep their keys in insertion order: a sequence of <<key, value>>.
Records(K, V, n) ==
    {m \in UNION {[1..k -> K \X V] : k \in 0..n} :
        \A i, j \in 1..Len(m) : i # j => m[i][1] # m[j][1]}

ObjectKeys(o)   == [i \in 1..Len(o) |-> o[i][1]]
ObjectValues(o) == [i \in 1..Len(o) |-> o[i][2]]

\* Array.prototype.join over pieces that are token sequences.
RECURSIVE join(_, _)
join(parts, sep) ==
    IF Len(parts) = 0 THEN <<>>
    ELSE IF Len(parts) = 1 THEN parts[1]
    ELSE parts[1] \o <<sep>> \o join(Tail(parts), sep)

\* String.prototype.toUpperCase on the words callers pass.
toUpperCase(s) ==
    CASE s = "asc"   -> "ASC"
      [] s = "desc"  -> "DESC"
      [] s = "inner" -> "INNER"
      [] s = "left"  -> "LEFT"
      [] s = "right" -> "RIGHT"
      [] OTHER       -> s

\* mysql2 escape of a string value: a quoted literal.
escape(v) == "'" \o v \o "'"

\* `fields?.length ? fields : '*'`
selectList(fields) == IF TruthyString(fields) THEN fields.v ELSE "*"

\* Mutant of insertEntityQuery: the parameters are taken from Object.keys.
insertEntityQueryBindsKeys(entityName, fields) ==
    [query  |-> <<"INSERT INTO", entityName, "(">>
                  \o join([i \in 1..Len(fields) |-> <<ObjectKeys(fields)[i]>>], ",")
                  \o <<")", "VALUES", "(">>
                  \o join([i \in 1..Len(fields) |-> <<"?">>], ",")
                  \o <<")">>,
     params |-> ObjectKeys(fields)]

insertEntityQuery(entityName, fields) ==
    [query  |-> <<"INSERT INTO", entityName, "(">>
                  \o join([i \in 1..Len(fields) |-> <<ObjectKeys(fields)[i]>>], ",")
                  \o <<")", "VALUES", "(">>
                  \o join([i \in 1..Len(fields) |-> <<"?">>], ",")
                  \o <<")">>,
     params |-> ObjectValues(fields)]

updateEntityQuery(entityName, id, fields) ==
    [query  |-> <<"UPDATE", entityName, "SET">>
                  \o join([i \in 1..Len(fields) |->
                             <<ObjectKeys(fields)[i], "=", "?">>], ",")
                  \o <<"WHERE", "id", "=", "?">>,
     params |-> ObjectValues(fields) \o <<id>>]

deleteEntityQuery(entityName, id) ==
    [query  |-> <<"DELETE FROM", entityName, "WHERE", "id", "=", "?">>,
     params |-> <<id>>]

selectEntityQuery(entityName, id, fields) ==
    [query  |-> <<"SELECT", selectList(fields), "FROM", entityName,
                  "WHERE", "id", "=", "?">>,
     params |-> <<id>>]

conditionString(conditions) ==
    IF TruthyObject(conditions)
    THEN <<"WHERE">> \o join([i \in 1..Len(conditions.v) |->
                                <<conditions.v[i][1], "=", escape(conditions.v[i][2])>>],
                             "AND")
    ELSE <<>>

orderByClause(sortBy, sortOrder) ==
    IF TruthyString(sortBy) /\ TruthyString(sortOrder)
    THEN <<"ORDER BY", sortBy.v, toUpperCase(sortOrder.v)>>
    ELSE <<>>

limitClause(page, pageSize) ==
    IF TruthyNumber(pageSize) /\ TruthyNumber(page)
    THEN <<"LIMIT", ToString(pageSize.v), "OFFSET", ToString((page.v - 1) * pageSize.v)>>
    ELSE <<>>

selectEntitiesQuery(entityName, conditions, fields, page, pageSize, sortBy, sortOrder) ==
    [query  |-> <<"SELECT", selectList(fields), "FROM", entityName>>
                  \o conditionString(conditions)
                  \o orderByClause(sortBy, sortOrder)
                  \o limitClause(page, pageSize),
     params |-> <<>>]

countQuery(entityName, conditions) ==
    [query  |-> <<"SELECT", "COUNT(*)", "AS", "count", "FROM", entityName>>
                  \o conditionString(conditions),
     params |-> <<>>]

joinQuery(joinType, table1, table2, joinConditions, selectFields) ==
    [query  |-> <<"SELECT">>
                  \o (IF selectFields.some
                      THEN join([i \in 1..Len(selectFields.v) |-> <<selectFields.v[i]>>], ",")
                      ELSE <<"*">>)
                  \o <<"FROM", table1,
                       toUpperCase(IF joinType.some THEN joinType.v ELSE "INNER"),
                       "JOIN", table2, "ON">>
                  \o join([i \in 1..Len(joinConditions) |-> <<joinConditions[i]>>], "AND"),
     params |-> <<>>]

\* One column of createTable: name, type(size), then the constraints pushed
\* for the flags that are set (defaultValue, check and comment are left
\* undefined in every definition drawn here).
fieldDefinition(fieldName, field) ==
    <<fieldName,
      field.type \o (IF TruthyNumber(field.size)
                     THEN "(" \o ToString(field.size.v) \o ")" ELSE "")>>
        \o (IF field.unique THEN <<"UNIQUE">> ELSE <<>>)
        \o (IF field.primary THEN <<"PRIMARY KEY">> ELSE <<>>)
        \o (IF field.nullable.some /\ field.nullable.v THEN <<"NULL">> ELSE <<>>)
        \o (IF ~field.nullable.some THEN <<"NOT NULL">> ELSE <<>>)
        \o (IF field.autoIncrement THEN <<"AUTO_INCREMENT">> ELSE <<>>)

createTableQuery(entityName, fields) ==
    [query  |-> <<"CREATE TABLE IF NOT EXISTS", entityName, "(",
                  "id", "INT", "AUTO_INCREMENT", "PRIMARY KEY", ",">>
                  \o join([i \in 1..Len(fields) |->
                             fieldDefinition(fields[i][1], fields[i][2])], ",")
                  \o <<")">>,
     params |-> <<>>]

dropTableQuery(entityName) ==
    [query |-> <<"DROP TABLE IF EXISTS", entityName>>, params |-> <<>>]

\* A call that sends one statement: what was sent and what the caller gets.
Sent(statement, out) ==
    [sent |-> <<statement>>, res |-> IF out = "ok" THEN "ok" ELSE "E_execute"]

\* Mutant of createTable: the table is dropped whatever the sync option says.
createTableAlwaysDrops(entityName, fields, dropOut, out) ==
    IF dropOut # "ok"
    THEN Sent(dropTableQuery(entityName), dropOut)
    ELSE [sent |-> <<dropTableQuery(entityName), createTableQuery(entityName, fields)>>,
          res  |-> IF out = "ok" THEN "ok" ELSE "E_execute"]

\* createTable: in sync mode dropTable runs first and its failure ends the call.
createTable(entityName, fields, dropOut, out) ==
    IF sync /\ dropOut # "ok"
    THEN Sent(dropTableQuery(entityName), dropOut)
    ELSE [sent |-> (IF sync THEN <<dropTableQuery(entityName)>> ELSE <<>>)
                     \o <<createTableQuery(entityName, fields)>>,
          res  |-> IF out = "ok" THEN "ok" ELSE "E_execute"]

\* The entity model's find: only conditions and fields reach HanORM.find.
modelFind(entityName, conditions, fields, page, pageSize, sortBy, sortOrder) ==
    selectEntitiesQuery(entityName, conditions, fields, Absent, Absent, Absent, Absent)

\* The rows of a createMany: startTransaction, then one INSERT per row up to
\* the first one that fails (failAt = 0: none fails), then the commit.
createManyRows(entityName, entities, begun, failAt, out) ==
    IF ~begun THEN [sent |-> <<>>, res |-> "E_begin"]
    ELSE LET n == IF failAt = 0 THEN Len(entities) ELSE failAt IN
         [sent |-> [k \in 1..n |-> insertEntityQuery(entityName, entities[k])],
          res  |-> IF failAt # 0 THEN "E_execute"
                   ELSE IF out = "ok" THEN "ok" ELSE "E_commit"]

\* A call runs to its end before the caller makes the next one.
CanCallSql == stmt = IdleStmt

\* Argument values.
FieldMaps      == Records(FieldNames, FieldValues, MaxFields)
RowMaps        == Records(FieldNames, {"x"}, MaxFields)
ConditionMaps  == Records(FieldNames, {"john_doe"}, MaxFields)
SelectStrings  == {"", "id, username, email"}
Pages          == (0 - 1)..MaxPage
PageSizes      == {0 - 1, 0, 1, 10}
SortColumns    == {"", "created_at"}
SortOrders     == {"asc", "desc"}
JoinTypes      == {"INNER", "LEFT", "RIGHT", "left"}
JoinConditions == {<<>>, <<"users.id = orders.user_id">>,
                   <<"users.id = orders.user_id", "orders.total = users.age">>}
SelectFields   == {<<>>, <<"users.id">>, <<"users.id", "orders.total">>}
FieldDefinitions ==
    {[type |-> "INT", size |-> Absent, unique |-> FALSE, nullable |-> Absent,
      primary |-> TRUE, autoIncrement |-> TRUE],
     [type |-> "VARCHAR", size |-> Given(255), unique |-> TRUE,
      nullable |-> Given(FALSE), primary |-> FALSE, autoIncrement |-> FALSE],
     [type |-> "VARCHAR", size |-> Given(255), unique |-> FALSE,
      nullable |-> Given(TRUE), primary |-> FALSE, autoIncrement |-> FALSE]}
TableFields    == Records(FieldNames, FieldDefinitions, MaxFields)

\* Everything the transaction layer owns.
instance == <<db, alive, held, inTx, pending, transactionConnection, pc, frame,
              calls, flows, rowFailed>>

Call(op, args, r) ==
    /\ stmt' = [op |-> op, args |-> args, sent |-> r.sent, res |-> r.res]
    /\ UNCHANGED <<instance, sync>>

Create ==
    /\ CanCallSql
    /\ \E e \in EntityNames, F \in FieldMaps, out \in {"ok", "err"} :
           Call("create", [entityName |-> e, fields |-> F],
                Sent(insertEntityQuery(e, F), out))

CreateMany ==
    /\ CanCallSql
    /\ \E e \in EntityNames, n \in 0..MaxLen, begun \in BOOLEAN, out \in {"ok", "err"} :
           \E rows \in [1..n -> RowMaps], failAt \in 0..n :
               Call("createMany", [entityName |-> e, entities |-> rows],
                    createManyRows(e, rows, begun, failAt, out))

Update ==
    /\ CanCallSql
    /\ \E e \in EntityNames, id \in Ids, F \in FieldMaps, out \in {"ok", "err"} :
           Call("update", [entityName |-> e, id |-> id, fields |-> F],
                Sent(updateEntityQuery(e, id, F), out))

Delete ==
    /\ CanCallSql
    /\ \E e \in EntityNames, id \in Ids, out \in {"ok", "err"} :
           Call("delete", [entityName |-> e, id |-> id],
                Sent(deleteEntityQuery(e, id), out))

FindById ==
    /\ CanCallSql
    /\ \E e \in EntityNames, id \in Ids, fields \in Optional(SelectStrings),
          out \in {"ok", "err"} :
           Call("findById", [entityName |-> e, id |-> id, fields |-> fields],
                Sent(selectEntityQuery(e, id, fields), out))

FindArgs(entityName, conditions, fields, page, pageSize, sortBy, sortOrder) ==
    [entityName |-> entityName, conditions |-> conditions, fields |-> fields,
     page |-> page, pageSize |-> pageSize, sortBy |-> sortBy, sortOrder |-> sortOrder]

\* HanORM.find called on the instance.
Find ==
    /\ CanCallSql
    /\ \E e \in EntityNames, conditions \in Optional(ConditionMaps),
          fields \in Optional(SelectStrings), page \in Optional(Pages),
          pageSize \in Optional(PageSizes), sortBy \in Optional(SortColumns),
          sortOrder \in Optional(SortOrders), out \in {"ok", "err"} :
           Call("find", FindArgs(e, conditions, fields, page, pageSize, sortBy, sortOrder),
                Sent(selectEntitiesQuery(e, conditions, fields, page, pageSize,
                                         sortBy, sortOrder), out))

\* find called on the object createModel returns.
ModelFind ==
    /\ CanCallSql
    /\ \E e \in EntityNames, conditions \in Optional(ConditionMaps),
          fields \in Optional(SelectStrings), page \in Optional(Pages),
          pageSize \in Optional(PageSizes), sortBy \in Optional(SortColumns),
          sortOrder \in Optional(SortOrders), out \in {"ok", "err"} :
           Call("model.find", FindArgs(e, conditions, fields, page, pageSize, sortBy, sortOrder),
                Sent(modelFind(e, conditions, fields, page, pageSize, sortBy, sortOrder), out))

Count ==
    /\ CanCallSql
    /\ \E e \in EntityNames, conditions \in Optional(ConditionMaps), out \in {"ok", "err"} :
           Call("count", [entityName |-> e, conditions |-> conditions],
                Sent(countQuery(e, conditions), out))

Join ==
    /\ CanCallSql
    /\ \E joinType \in Optional(JoinTypes), table1, table2 \in EntityNames,
          joinConditions \in JoinConditions, selectFields \in Optional(SelectFields),
          out \in {"ok", "err"} :
           Call("join", [joinType |-> joinType, table1 |-> table1, table2 |-> table2,
                         joinConditions |-> joinConditions, selectFields |-> selectFields],
                Sent(joinQuery(joinType, table1, table2, joinConditions, selectFields), out))

\* createTable, called directly or as the first step of createModel.
CreateTable ==
    /\ CanCallSql
    /\ \E op \in {"createTable", "createModel"}, e \in EntityNames, fields \in TableFields,
          dropOut, out \in {"ok", "err"} :
           Call(op, [entityName |-> e, fields |-> fields],
                createTable(e, fields, dropOut, out))

DropTable ==
    /\ CanCallSql
    /\ \E e \in EntityNames, out \in {"ok", "err"} :
           Call("dropTable", [entityName |-> e], Sent(dropTableQuery(e), out))

\* The caller has the call's result or error.
Settle ==
    /\ stmt # IdleStmt
    /\ stmt' = IdleStmt
    /\ UNCHANGED <<instance, sync>>

\* `this.sync = this.connectionOptions?.sync ?? false`
InitSql ==
    /\ Init
    /\ flows = {}
    /\ \E option \in Optional(BOOLEAN) : sync = IF option.some THEN option.v ELSE FALSE

NextSql ==
    \/ Create
    \/ CreateMany
    \/ Update
    \/ Delete
    \/ FindById
    \/ Find
    \/ ModelFind
    \/ Count
    \/ Join
    \/ CreateTable
    \/ DropTable
    \/ Settle

SpecSql == InitSql /\ [][NextSql]_vars

\* Reading a query by its structure.
Has(query, keyword) == \E i \in 1..Len(query) : query[i] = keyword
At(query, keyword)  == CHOOSE i \in 1..Len(query) : query[i] = keyword
After(query, keyword) == SubSeq(query, At(query, keyword) + 1, Len(query))
IsName(token) == token # ","
IsPlaceholder(token) == token = "?"
Columns(query) ==
    SelectSeq(SubSeq(query, At(query, "(") + 1, At(query, ")") - 1), IsName)
Placeholders(query) == Len(SelectSeq(query, IsPlaceholder))

\* The select statement a find call sent.
FindQuery == stmt.sent[1].query

\* C13: find called through an entity model with page, pageSize, sortBy and
\* sortOrder (README 7.2) sends a SELECT with the corresponding ORDER BY and
\* LIMIT/OFFSET clauses.
C13_ModelFindPaginatesAndSorts ==
    (/\ stmt.op = "model.find"
     /\ TruthyNumber(stmt.args.page) /\ stmt.args.page.v > 0
     /\ TruthyNumber(stmt.args.pageSize) /\ stmt.args.pageSize.v > 0
     /\ TruthyString(stmt.args.sortBy) /\ TruthyString(stmt.args.sortOrder))
        => /\ Has(FindQuery, "ORDER BY")
           /\ Has(FindQuery, "LIMIT") /\ Has(FindQuery, "OFFSET")
           /\ stmt.sent[1] = selectEntitiesQuery(stmt.args.entityName,
                                 stmt.args.conditions, stmt.args.fields,
                                 stmt.args.page, stmt.args.pageSize,
                                 stmt.args.sortBy, stmt.args.sortOrder)

\* The statement is the INSERT of field map F: F's keys as columns, one
\* placeholder per entry, F's values as parameters.
InsertOf(statement, F) ==
    /\ statement.query[1] = "INSERT INTO"
    /\ Columns(statement.query) = ObjectKeys(F)
    /\ Placeholders(statement.query) = Len(F)
    /\ statement.params = ObjectValues(F)

\* C14: for every field map F with at least one entry, the INSERT built by
\* create, and by each row of createMany, lists F's keys in iteration order,
\* has exactly len(F) placeholders and binds F's values in the same order.
C14_InsertMatchesFieldMap ==
    /\ (stmt.op = "create" /\ Len(stmt.args.fields) >= 1)
          => /\ Len(stmt.sent) = 1
             /\ InsertOf(stmt.sent[1], stmt.args.fields)
    /\ stmt.op = "createMany"
          => \A k \in 1..Len(stmt.sent) :
                Len(stmt.args.entities[k]) >= 1
                    => InsertOf(stmt.sent[k], stmt.args.entities[k])

C14_Witness ==
    /\ stmt.op = "create" /\ stmt.res = "ok"
    /\ Len(stmt.args.fields) >= 2
    /\ stmt.args.fields[1][2] # stmt.args.fields[2][2]

\* C15: create and update called with an empty field map fail with a schema
\* error and send no statement.
C15_EmptyFieldMapRejected ==
    (stmt.op \in {"create", "update"} /\ Len(stmt.args.fields) = 0)
        => stmt.res = "SchemaError" /\ stmt.sent = <<>>

\* C16: find emits LIMIT/OFFSET exactly when page and pageSize are both
\* positive, and then as LIMIT pageSize OFFSET (page-1)*pageSize.
C16_LimitIffPositivePaging ==
    stmt.op = "find" =>
        LET page     == stmt.args.page
            pageSize == stmt.args.pageSize
            positive == /\ page.some /\ page.v > 0
                        /\ pageSize.some /\ pageSize.v > 0
        IN  /\ Has(FindQuery, "LIMIT") <=> positive
            /\ Has(FindQuery, "LIMIT")
                  => After(FindQuery, "LIMIT")
                        = <<ToString(pageSize.v), "OFFSET",
                            ToString((page.v - 1) * pageSize.v)>>

\* C17: find and count emit WHERE exactly when at least one condition is
\* supplied, and find emits no ORDER BY / LIMIT without sorting / paging
\* arguments.
C17_NoEmptyClause ==
    /\ stmt.op \in {"find", "count"}
          => (Has(stmt.sent[1].query, "WHERE")
                <=> (stmt.args.conditions.some /\ Len(stmt.args.conditions.v) >= 1))
    /\ stmt.op = "find"
          => /\ (~stmt.args.sortBy.some /\ ~stmt.args.sortOrder.some)
                    => ~Has(FindQuery, "ORDER BY")
             /\ (~stmt.args.page.some /\ ~stmt.args.pageSize.some)
                    => ~Has(FindQuery, "LIMIT")

\* C18: join called with an empty joinConditions list fails with a
\* validation error and sends no statement.
C18_EmptyJoinConditionsRejected ==
    (stmt.op = "join" /\ stmt.args.joinConditions = <<>>)
        => stmt.res = "ValidationError" /\ stmt.sent = <<>>

IsDrop(statement)   == statement.query[1] = "DROP TABLE IF EXISTS"
IsCreate(statement) == statement.query[1] = "CREATE TABLE IF NOT EXISTS"

\* C19: with sync=true every createTable/createModel call sends DROP TABLE
\* IF EXISTS for its table before its CREATE TABLE; with sync false or absent
\* it never sends a DROP TABLE.
C19_SyncGatesDrop ==
    stmt.op \in {"createTable", "createModel"} =>
        /\ sync => /\ stmt.sent[1] = dropTableQuery(stmt.args.entityName)
                   /\ \A k \in 1..Len(stmt.sent) :
                        IsCreate(stmt.sent[k])
                            => \E j \in 1..(k - 1) :
                                 stmt.sent[j] = dropTableQuery(stmt.args.entityName)
        /\ ~sync => /\ \A k \in 1..Len(stmt.sent) : ~IsDrop(stmt.sent[k])
                    /\ Len(stmt.sent) = 1 /\ IsCreate(stmt.sent[1])

C19_Witness ==
    /\ stmt.op = "createModel" /\ sync /\ stmt.res = "ok"
    /\ Len(stmt.sent) = 2 /\ IsDrop(stmt.sent[1]) /\ IsCreate(stmt.sent[2])
    /\ Len(stmt.args.fields) >= 1

----------------------------------------------------------------------------
\* The driver call a suspended call is waiting for.
InFlight(p) == pc[p] \in {"eq_exec", "ct_commit", "rt_rollback"}
Executes(f) == {k \in Idx(f) : Name(f, k) = "execute"}

\* Statement k of the call ran inside the transaction the call began: after
\* its BEGIN, on the same connection, before any commit or rollback.
InOwnTransaction(f, k) ==
    \E b \in Idx(f) :
        /\ b < k /\ Name(f, b) = "begin" /\ Out(f, b) = "ok"
        /\ Conn(f, b) = Conn(f, k)
        /\ \A j \in (b + 1)..(k - 1) : Name(f, j) \notin {"commit", "rollback"}

\* C21: within one bulk operation the row statements execute one after the
\* other in input order, each at most once, all on the connection on which
\* the operation's transaction was begun and while that transaction is open.
C21_BulkRowsOnOpenTransaction ==
    \A p \in Callers :
        LET f == frame[p] IN
        f.kind \in BulkOps =>
            /\ f.i <= f.n
            /\ Cardinality({k \in Executes(f) : Out(f, k) = "ok"}) = f.i
            /\ \A k \in Executes(f) :
                 /\ Out(f, k) # "ok" => /\ f.failedRow = f.i + 1
                                        /\ \A j \in Executes(f) : j <= k
                 /\ InOwnTransaction(f, k)
            /\ pc[p] = "eq_exec" => f.conn = f.txc /\ inTx[f.conn]

\* C22: every execute, commit or rollback call targets a connection that is
\* checked out of the pool at the time of the call.
C22_CallsTargetHeldConnection ==
    \A p \in Callers : InFlight(p) => held[frame[p].conn]

====
